---- MODULE Spec2Model ----
(***************************************************************************)
(* Learning Tracker API (server.js): an Express route layer over one       *)
(* mongoose collection of learning entries, plus the statistics endpoint.  *)
(*                                                                         *)
(* Units.  hours are counted in hundredths of an hour (0.1 h = 10,         *)
(* 24 h = 2400); dates and clock readings are instants 1, 2, ...; strings  *)
(* are sequences of one-character strings; an optional body field is the   *)
(* empty set (undefined) or a singleton holding its value.                 *)
(*                                                                         *)
(* Scheduling.  Node runs every synchronous stretch of a handler without   *)
(* interruption; a handler gives up control only at its single `await`.    *)
(* What runs before the await reads nothing but the request and the clock, *)
(* so a handler that reached the store is its store call at the current    *)
(* state together with the earlier clock reading `at` of its route checks. *)
(***************************************************************************)
EXTENDS Integers, Sequences, FiniteSets, TLC

\* ------------------------------------------------------------------ bounds
MaxIds == 2
MaxClock == 2
MaxStatEntries == 6
MaxSupplied == 2

\* ------------------------------------------------------------ request data
Undefined == {}
Has(f) == f # {}
Val(f) == CHOOSE x \in f : TRUE

\* req.params.id: identifiers 1, 2, ... are well-formed ObjectIds; MalformedId
\* stands for a path segment that is no ObjectId at all.
MalformedId == 0
IdInputs == (1 .. MaxIds) \cup {MalformedId}

NameInputs ==
  { Undefined, {<<>>}, {<<" ", "A">>}, {<<" ", "A", "B", " ">>}, {<<"C", "D">>} }
DateInputs == { Undefined, {[iso |-> 1]}, {[iso |-> 2]} }
HoursInputs ==
  { Undefined, {[num |-> 0]}, {[num |-> 0 - 100]}, {[num |-> 5]}, {[num |-> 10]},
    {[num |-> 2400]}, {[num |-> 2500]}, {[str |-> 2400]} }
NotesInputs == { Undefined, {<<>>}, {<<" ", "n">>} }

Bodies == [name : NameInputs, date : DateInputs, hours : HoursInputs, notes : NotesInputs]

\* The bodies PUT is tried with: at most MaxSupplied of the four fields present.
Supplied(b) == { f \in {"name", "date", "hours", "notes"} : Has(b[f]) }
PutBodies == { b \in Bodies : Cardinality(Supplied(b)) <= MaxSupplied }

\* ------------------------------------------------------- JavaScript helpers
RECURSIVE TrimStart(_)
TrimStart(s) == IF s # <<>> /\ Head(s) = " " THEN TrimStart(Tail(s)) ELSE s

RECURSIVE TrimEnd(_)
TrimEnd(s) ==
  IF s # <<>> /\ s[Len(s)] = " " THEN TrimEnd(SubSeq(s, 1, Len(s) - 1)) ELSE s

\* Faulty variant: only leading whitespace is removed.
Trim_LeadingOnly(s) == TrimStart(s)

\* String.prototype.trim
Trim(s) == TrimEnd(TrimStart(s))

\* ToNumber of an hours value: a number is itself, a numeric string its value.
ToNumber(h) == IF "num" \in DOMAIN h THEN h.num ELSE h.str

\* parseFloat(hours): always a number, whatever the type of the argument.
ParseFloat(h) == IF "num" \in DOMAIN h THEN h.num ELSE h.str

\* JavaScript truthiness of the body fields.
TruthyString(f) == Has(f) /\ Val(f) # <<>>
TruthyDate(f) == Has(f)
TruthyHours(f) == Has(f) /\ (("num" \in DOMAIN Val(f)) => Val(f).num # 0)

\* new Date(date): the instant an ISO date string denotes.
NewDate(d) == d.iso

\* ------------------------------------------------------------- entrySchema
MinNameLength == 2
SchemaMinHours == 10
SchemaMaxHours == 2400

\* name: { type: String, required, trim, minlength: 2 }
SchemaNameOk(n) == n # <<>> /\ Len(n) >= MinNameLength

\* date: validator v <= new Date(), read when the document is validated
SchemaDateOk(d, clock) == d <= clock

\* hours: { type: Number, required, min: 0.1, max: 24 }
SchemaHoursOk(h) == h >= SchemaMinHours /\ h <= SchemaMaxHours

\* Casting of the paths a document or an update sets: String paths run their
\* trim setter, the Date path is cast from the string the route handed over.
SchemaCast(d) ==
  [ name  |-> { Trim(n) : n \in d.name },
    date  |-> { NewDate(x) : x \in d.date },
    hours |-> d.hours,
    notes |-> { Trim(n) : n \in d.notes } ]

\* The validators of every path that is set (runValidators on an update).
SchemaValid(c, clock) ==
  /\ \A n \in c.name : SchemaNameOk(n)
  /\ \A x \in c.date : SchemaDateOk(x, clock)
  /\ \A h \in c.hours : SchemaHoursOk(h)

\* ------------------------------------------------------------------- state
VARIABLES
  store,    \* the collection: _id -> document
  nextId,   \* the next ObjectId the driver hands out
  deleted,  \* history: the identifiers DELETE has removed
  now,      \* the server clock
  resp      \* the exchange whose response is being sent, or NoResp

vars == <<store, nextId, deleted, now, resp>>

NoBody == [name |-> Undefined, date |-> Undefined, hours |-> Undefined, notes |-> Undefined]

NoResp ==
  [ op |-> "none", id |-> MalformedId, body |-> NoBody, at |-> 0, status |-> 0,
    entry |-> {}, storeCalled |-> FALSE, stats |-> {} ]

Resp(op, id, body, at, status, entry, called) ==
  [ op |-> op, id |-> id, body |-> body, at |-> at, status |-> status,
    entry |-> entry, storeCalled |-> called, stats |-> {} ]

IsObjectId(id) == id # MalformedId

\* ------------------------------------------------------ POST /api/entries
RouteMaxHours == 2400

\* Faulty variant: the range check on hours is left out.
PostRejects_NoHoursRange(b, clock) ==
  IF ~TruthyString(b.name) \/ ~TruthyDate(b.date) \/ ~TruthyHours(b.hours) THEN TRUE
  ELSE IF Len(Trim(Val(b.name))) < MinNameLength THEN TRUE
  ELSE NewDate(Val(b.date)) > clock

\* The route's checks, in order; TRUE when one of them answers 400.
PostRejects(b, clock) ==
  IF ~TruthyString(b.name) \/ ~TruthyDate(b.date) \/ ~TruthyHours(b.hours) THEN TRUE
  ELSE IF Len(Trim(Val(b.name))) < MinNameLength THEN TRUE
  ELSE IF NewDate(Val(b.date)) > clock THEN TRUE
  ELSE ToNumber(Val(b.hours)) <= 0 \/ ToNumber(Val(b.hours)) > RouteMaxHours

\* Faulty variant: notes is not passed on to the document.
PostDoc_NotesDropped(b) ==
  [ name  |-> { Trim(Val(b.name)) },
    date  |-> b.date,
    hours |-> { ParseFloat(Val(b.hours)) },
    notes |-> { <<>> } ]

\* new Entry({ name: name.trim(), date, hours: parseFloat(hours), notes: ... })
PostDoc(b) ==
  [ name  |-> { Trim(Val(b.name)) },
    date  |-> b.date,
    hours |-> { ParseFloat(Val(b.hours)) },
    notes |-> { IF TruthyString(b.notes) THEN Trim(Val(b.notes)) ELSE <<>> } ]

\* The document save() inserts: the cast paths, _id and both timestamps.
NewEntry(c, id, clock) ==
  [ id |-> id, name |-> Val(c.name), date |-> Val(c.date), hours |-> Val(c.hours),
    notes |-> Val(c.notes), createdAt |-> clock, updatedAt |-> clock ]

PostRejected(b) ==
  /\ PostRejects(b, now)
  /\ resp' = Resp("POST", MalformedId, b, now, 400, {}, FALSE)
  /\ UNCHANGED <<store, nextId, deleted, now>>

PostSaved(b, at) ==
  /\ ~PostRejects(b, at)
  /\ LET c == SchemaCast(PostDoc(b)) IN
       IF SchemaValid(c, now)
       THEN LET e == NewEntry(c, nextId, now) IN
              /\ nextId <= MaxIds
              /\ store' = [i \in DOMAIN store \cup {nextId} |->
                             IF i = nextId THEN e ELSE store[i]]
              /\ nextId' = nextId + 1
              /\ resp' = Resp("POST", nextId, b, at, 201, {e}, TRUE)
       ELSE /\ resp' = Resp("POST", MalformedId, b, at, 500, {}, TRUE)
            /\ UNCHANGED <<store, nextId>>
  /\ UNCHANGED <<deleted, now>>

Post ==
  /\ resp = NoResp
  /\ \E b \in Bodies : PostRejected(b) \/ \E at \in 1 .. now : PostSaved(b, at)

\* --------------------------------------------------- PUT /api/entries/:id
\* The route's checks; each applies only to a truthy field.
PutRejects(b, clock) ==
  IF TruthyString(b.name) /\ Len(Trim(Val(b.name))) < MinNameLength THEN TRUE
  ELSE IF TruthyDate(b.date) /\ NewDate(Val(b.date)) > clock THEN TRUE
  ELSE /\ TruthyHours(b.hours)
       /\ (ToNumber(Val(b.hours)) <= 0 \/ ToNumber(Val(b.hours)) > RouteMaxHours)

\* Faulty variant: notes is defaulted as in POST, so an omitted notes is overwritten.
UpdateData_NotesDefaulted(b) ==
  [ name  |-> IF TruthyString(b.name) THEN { Trim(Val(b.name)) } ELSE {},
    date  |-> IF TruthyDate(b.date) THEN b.date ELSE {},
    hours |-> IF TruthyHours(b.hours) THEN { ParseFloat(Val(b.hours)) } ELSE {},
    notes |-> { IF TruthyString(b.notes) THEN Trim(Val(b.notes)) ELSE <<>> } ]

\* updateData: truthy name, date and hours, and notes whenever it is defined.
UpdateData(b) ==
  [ name  |-> IF TruthyString(b.name) THEN { Trim(Val(b.name)) } ELSE {},
    date  |-> IF TruthyDate(b.date) THEN b.date ELSE {},
    hours |-> IF TruthyHours(b.hours) THEN { ParseFloat(Val(b.hours)) } ELSE {},
    notes |-> { Trim(n) : n \in b.notes } ]

\* $set of the cast update, with the updatedAt the timestamps option adds.
ApplyUpdate(e, c, clock) ==
  [ id |-> e.id,
    name  |-> IF Has(c.name) THEN Val(c.name) ELSE e.name,
    date  |-> IF Has(c.date) THEN Val(c.date) ELSE e.date,
    hours |-> IF Has(c.hours) THEN Val(c.hours) ELSE e.hours,
    notes |-> IF Has(c.notes) THEN Val(c.notes) ELSE e.notes,
    createdAt |-> e.createdAt,
    updatedAt |-> clock ]

PutRejected(id, b) ==
  /\ PutRejects(b, now)
  /\ resp' = Resp("PUT", id, b, now, 400, {}, FALSE)
  /\ UNCHANGED <<store, nextId, deleted, now>>

\* Faulty variant: the update runs with upsert, so an absent document is created.
PutStore_Upsert(id, b, at) ==
  /\ ~PutRejects(b, at)
  /\ LET c == SchemaCast(UpdateData(b))
         blank == [ id |-> id, name |-> <<>>, date |-> now, hours |-> 0, notes |-> <<>>,
                    createdAt |-> now, updatedAt |-> now ]
     IN
       IF ~IsObjectId(id) \/ ~SchemaValid(c, now)
       THEN /\ resp' = Resp("PUT", id, b, at, 500, {}, TRUE)
            /\ store' = store
       ELSE LET e == ApplyUpdate(IF id \in DOMAIN store THEN store[id] ELSE blank, c, now) IN
              /\ store' = [i \in DOMAIN store \cup {id} |-> IF i = id THEN e ELSE store[i]]
              /\ resp' = Resp("PUT", id, b, at, 200, {e}, TRUE)
  /\ UNCHANGED <<nextId, deleted, now>>

\* Entry.findByIdAndUpdate(id, updateData, { new: true, runValidators: true })
PutStore(id, b, at) ==
  /\ ~PutRejects(b, at)
  /\ LET c == SchemaCast(UpdateData(b)) IN
       IF ~IsObjectId(id) \/ ~SchemaValid(c, now)
       THEN /\ resp' = Resp("PUT", id, b, at, 500, {}, TRUE)
            /\ store' = store
       ELSE IF id \notin DOMAIN store
       THEN /\ resp' = Resp("PUT", id, b, at, 404, {}, TRUE)
            /\ store' = store
       ELSE LET e == ApplyUpdate(store[id], c, now) IN
              /\ store' = [store EXCEPT ![id] = e]
              /\ resp' = Resp("PUT", id, b, at, 200, {e}, TRUE)
  /\ UNCHANGED <<nextId, deleted, now>>

Put ==
  /\ resp = NoResp
  /\ \E id \in IdInputs, b \in PutBodies :
        PutRejected(id, b) \/ \E at \in 1 .. now : PutStore(id, b, at)

\* --------------------------------------------------- GET /api/entries/:id
\* The handler around Entry.findById(req.params.id): status and body.
GetById(st, id) ==
  IF ~IsObjectId(id) THEN [status |-> 500, entry |-> {}]
  ELSE IF id \notin DOMAIN st THEN [status |-> 404, entry |-> {}]
  ELSE [status |-> 200, entry |-> {st[id]}]

Get ==
  \E id \in IdInputs :
    /\ resp = NoResp
    /\ resp' = Resp("GET", id, NoBody, now, GetById(store, id).status,
                    GetById(store, id).entry, TRUE)
    /\ UNCHANGED <<store, nextId, deleted, now>>

\* ------------------------------------------------ DELETE /api/entries/:id
\* Entry.findByIdAndDelete(req.params.id)
Delete ==
  \E id \in IdInputs :
    /\ resp = NoResp
    /\ IF ~IsObjectId(id)
       THEN /\ resp' = Resp("DELETE", id, NoBody, now, 500, {}, TRUE)
            /\ UNCHANGED <<store, deleted>>
       ELSE IF id \notin DOMAIN store
       THEN /\ resp' = Resp("DELETE", id, NoBody, now, 404, {}, TRUE)
            /\ UNCHANGED <<store, deleted>>
       ELSE /\ store' = [i \in DOMAIN store \ {id} |-> store[i]]
            /\ deleted' = deleted \cup {id}
            /\ resp' = Resp("DELETE", id, NoBody, now, 200, {store[id]}, TRUE)
    /\ UNCHANGED <<nextId, now>>

\* ---------------------------------------------------------- GET /api/stats
TopN == 5

RECURSIVE ScanFrom(_, _)
ScanFrom(st, ids) ==
  IF ids = {} THEN <<>>
  ELSE LET i == CHOOSE x \in ids : \A y \in ids : x <= y
       IN <<st[i]>> \o ScanFrom(st, ids \ {i})

\* Entry.find(): the documents in natural (insertion) order.
Find(st) == ScanFrom(st, DOMAIN st)

RECURSIVE SumHours(_)
SumHours(es) == IF es = <<>> THEN 0 ELSE Head(es).hours + SumHours(Tail(es))

\* [...new Set(entries.map(e => e.name))].length
UniqueLearners(es) == Cardinality({ es[i].name : i \in DOMAIN es })

\* entries.reduce(...): acc as its keys' groups in order of insertion.
RECURSIVE Leaderboard(_, _)
Leaderboard(acc, es) ==
  IF es = <<>> THEN acc
  ELSE LET e == Head(es)
           seen == \E k \in DOMAIN acc : acc[k].name = e.name
           acc1 == IF seen THEN acc
                   ELSE Append(acc, [name |-> e.name, hours |-> 0, entries |-> 0])
           acc2 == [ k \in DOMAIN acc1 |->
                       IF acc1[k].name = e.name
                       THEN [ name |-> e.name, hours |-> acc1[k].hours + e.hours,
                              entries |-> acc1[k].entries + 1 ]
                       ELSE acc1[k] ]
       IN Leaderboard(acc2, Tail(es))

Digits == {"0", "1", "2", "3", "4", "5", "6", "7", "8", "9"}
DigitValue(c) == CHOOSE d \in 0 .. 9 : <<"0", "1", "2", "3", "4", "5", "6", "7", "8", "9">>[d + 1] = c

\* A property key that is a canonical array index ("0", "7", "10", not "01").
IsArrayIndex(k) ==
  /\ k # <<>>
  /\ \A i \in DOMAIN k : k[i] \in Digits
  /\ Len(k) > 1 => k[1] # "0"

RECURSIVE KeyNumber(_)
KeyNumber(k) ==
  IF k = <<>> THEN 0 ELSE 10 * KeyNumber(SubSeq(k, 1, Len(k) - 1)) + DigitValue(k[Len(k)])

RECURSIVE InsertAscending(_, _)
InsertAscending(sorted, g) ==
  IF sorted = <<>> THEN <<g>>
  ELSE IF KeyNumber(g.name) < KeyNumber(Head(sorted).name) THEN <<g>> \o sorted
  ELSE <<Head(sorted)>> \o InsertAscending(Tail(sorted), g)

RECURSIVE AscendingKeys(_)
AscendingKeys(gs) ==
  IF gs = <<>> THEN <<>>
  ELSE InsertAscending(AscendingKeys(SubSeq(gs, 1, Len(gs) - 1)), gs[Len(gs)])

\* Object.values(leaderboard): own properties in property order, which is the
\* array-index keys in ascending numeric order, then the other keys in the
\* order they were created.
ObjectValues(acc) ==
  LET IsIndex(g) == IsArrayIndex(g.name)
      IsOther(g) == ~IsArrayIndex(g.name)
  IN AscendingKeys(SelectSeq(acc, IsIndex)) \o SelectSeq(acc, IsOther)

\* One step of the stable sort with comparator (a, b) => b.hours - a.hours:
\* g goes behind every group that has at least its hours.
RECURSIVE InsertByHours(_, _)
InsertByHours(sorted, g) ==
  IF sorted = <<>> THEN <<g>>
  ELSE IF g.hours > Head(sorted).hours THEN <<g>> \o sorted
  ELSE <<Head(sorted)>> \o InsertByHours(Tail(sorted), g)

RECURSIVE SortByHours(_)
SortByHours(gs) ==
  IF gs = <<>> THEN <<>>
  ELSE InsertByHours(SortByHours(SubSeq(gs, 1, Len(gs) - 1)), gs[Len(gs)])

\* .slice(0, 5)
Slice(gs, n) == SubSeq(gs, 1, IF Len(gs) < n THEN Len(gs) ELSE n)

TopLearners(es) == Slice(SortByHours(ObjectValues(Leaderboard(<<>>, es))), TopN)

\* Faulty variant: the digits after the first decimal are cut off, not rounded.
ToFixed1_Truncating(num, den) == { num \div (10 * den) }

\* parseFloat((num / den).toFixed(1)) in tenths of an hour, num in hundredths:
\* the nearest tenth; where num / den lies exactly between two tenths the
\* binary floating-point value decides, so either neighbour can come out.
ToFixed1(num, den) ==
  { a \in 0 .. (num \div (10 * den)) + 1 :
      /\ 10 * a * den - num <= 5 * den
      /\ num - 10 * a * den <= 5 * den }

Stats ==
  /\ resp = NoResp
  /\ LET entries == Find(store)
         totalEntries == Len(entries)
         totalHours == SumHours(entries)
     IN \E th \in ToFixed1(totalHours, 1) :
        \E avg \in (IF totalEntries > 0 THEN ToFixed1(totalHours, totalEntries) ELSE {0}) :
          resp' = [ Resp("STATS", MalformedId, NoBody, now, 200, {}, TRUE) EXCEPT
                      !.stats = { [ totalEntries |-> totalEntries,
                                    totalHours |-> th,
                                    uniqueLearners |-> UniqueLearners(entries),
                                    avgHours |-> avg,
                                    topLearners |-> TopLearners(entries) ] } ]
  /\ UNCHANGED <<store, nextId, deleted, now>>

\* ------------------------------------------------------------ environment
\* The clock moves on.
Tick ==
  /\ now < MaxClock
  /\ now' = now + 1
  /\ UNCHANGED <<store, nextId, deleted, resp>>

\* The response has gone out; the exchange is over.
Sent ==
  /\ resp # NoResp
  /\ resp' = NoResp
  /\ UNCHANGED <<store, nextId, deleted, now>>

Init ==
  /\ store = << >>
  /\ nextId = 1
  /\ deleted = {}
  /\ now = 1
  /\ resp = NoResp

Next == Post \/ Put \/ Get \/ Delete \/ Stats \/ Tick \/ Sent

Spec == Init /\ [][Next]_vars

\* ------------------------------------------- the statistics over any store
\* Collections GET /api/stats can meet: up to MaxStatEntries documents; the
\* i-th inserted one carries the i-th name of StatNames or repeats one of the
\* first two, with 0.1 h or 0.2 h.
StatNames ==
  << <<"A", "B">>, <<"1", "0">>, <<"a", "b">>, <<"C", "D">>,
     <<"E", "F">>, <<"G", "H">>, <<"I", "J">>, <<"K", "L">> >>
StatHours == {10, 20}

StatEntry(i, n, h) ==
  [ id |-> i, name |-> n, date |-> 1, hours |-> h, notes |-> <<>>,
    createdAt |-> 1, updatedAt |-> 1 ]

InitStats ==
  /\ \E k \in 0 .. MaxStatEntries :
       \E pick \in [ 1 .. k -> [n : 1 .. 3, h : StatHours] ] :
         store = [ i \in 1 .. k |->
                     StatEntry(i, StatNames[IF pick[i].n = 3 THEN i ELSE pick[i].n],
                               pick[i].h) ]
  /\ nextId = Len(store) + 1
  /\ deleted = {}
  /\ now = 1
  /\ resp = NoResp

NextStats == Stats

SpecStats == InitStats /\ [][NextStats]_vars

\* =================================================================== claims
IsTrimmed(s) == s = <<>> \/ (s[1] # " " /\ s[Len(s)] # " ")

\* What the claims call invalid in a request body, read at clock reading t.
NameTooShort(b) == Has(b.name) /\ Len(TrimEnd(TrimStart(Val(b.name)))) < 2
DateInFuture(b, t) == Has(b.date) /\ Val(b.date).iso > t
HoursValue(b) == IF "num" \in DOMAIN Val(b.hours) THEN Val(b.hours).num ELSE Val(b.hours).str
HoursOutOfRange(b) == Has(b.hours) /\ (HoursValue(b) <= 0 \/ HoursValue(b) > 2400)
MissingRequired(b) == ~Has(b.name) \/ ~Has(b.date) \/ ~Has(b.hours)

\* A handler has just answered: resp' is its response.
Answered(op) == resp = NoResp /\ resp'.op = op

\* C1: after any sequence and interleaving of POST, PUT and DELETE requests,
\* every stored entry has a trimmed name of length at least 2, hours greater
\* than 0 and at most 24, trimmed notes, and a date that was not later than the
\* server clock when it was written.
C1_StoredEntriesValid ==
  [][ \A id \in DOMAIN store' :
        LET e == store'[id] IN
          /\ IsTrimmed(e.name) /\ Len(e.name) >= 2
          /\ e.hours > 0 /\ e.hours <= 2400
          /\ IsTrimmed(e.notes)
          /\ e.date <= e.updatedAt
          /\ (id \notin DOMAIN store \/ store[id].date # e.date) => e.date <= now'
    ]_vars

C1_Witness ==
  /\ resp.op = "PUT" /\ resp.status = 200
  /\ Has(resp.body.date)
  /\ Cardinality(DOMAIN store) = 2
  /\ resp.at < now

\* C2: for POST with an otherwise valid name and date, the request is accepted
\* (201, entry stored) exactly when hours lies in (0, 24], and answered 400
\* otherwise.
C2_PostAcceptsExactlyHoursInRange ==
  ( /\ resp.op = "POST"
    /\ Has(resp.body.name) /\ ~NameTooShort(resp.body)
    /\ Has(resp.body.date) /\ ~DateInFuture(resp.body, resp.at)
    /\ Has(resp.body.hours) )
  => IF HoursOutOfRange(resp.body)
     THEN resp.status = 400
     ELSE /\ resp.status = 201
          /\ resp.id \in DOMAIN store
          /\ store[resp.id].hours = HoursValue(resp.body)

C4_InvalidPutRejected ==
  [][ ( /\ Answered("PUT")
        /\ resp'.id \in DOMAIN store
        /\ \/ NameTooShort(resp'.body)
           \/ DateInFuture(resp'.body, resp'.at)
           \/ HoursOutOfRange(resp'.body) )
      => ( resp'.status = 400 /\ store' = store )
    ]_vars

\* What a successful PUT must leave alone: the other entries, the id and
\* createdAt, every omitted field; notes is overwritten whenever it is given.
PutFrame(id, b) ==
  /\ id \in DOMAIN store /\ DOMAIN store' = DOMAIN store
  /\ \A j \in DOMAIN store \ {id} : store'[j] = store[j]
  /\ store'[id].id = id /\ store'[id].createdAt = store[id].createdAt
  /\ \A f \in {"name", "date", "hours", "notes"} :
       ~Has(b[f]) => store'[id][f] = store[id][f]
  /\ Has(b.notes) => store'[id].notes = TrimEnd(TrimStart(Val(b.notes)))
  /\ resp'.entry = {store'[id]}

\* C5 as stated: a successful PUT changes only the supplied fields, keeps the
\* id and every other entry, overwrites notes whenever it is provided, and with
\* an empty body changes nothing but updatedAt, which advances.
C5_PutChangesOnlySupplied_UpdatedAtAdvances ==
  [][ (Answered("PUT") /\ resp'.status = 200)
      => /\ PutFrame(resp'.id, resp'.body)
         /\ resp'.body = NoBody => store'[resp'.id].updatedAt > store[resp'.id].updatedAt
    ]_vars

\* C5 amended: as C5, except that updatedAt is set to the server clock at the
\* time of the update; it is later than before only when the clock has moved
\* on since the entry was last written.
C5_PutChangesOnlySupplied ==
  [][ (Answered("PUT") /\ resp'.status = 200)
      => /\ PutFrame(resp'.id, resp'.body)
         /\ store'[resp'.id].updatedAt = now'
         /\ store'[resp'.id].updatedAt >= store[resp'.id].updatedAt
    ]_vars

C5_Witness ==
  /\ resp.op = "PUT" /\ resp.status = 200 /\ resp.body = NoBody
  /\ Cardinality(DOMAIN store) = 2
  /\ store[resp.id].updatedAt > store[resp.id].createdAt

\* C6 as stated: after a successful POST, GET with the returned id yields a
\* record equal to the submitted input on name, date, hours and notes, with id
\* and timestamps populated.
C6_CreateThenGetEqualsInput ==
  (resp.op = "POST" /\ resp.status = 201)
  => LET g == GetById(store, resp.id) IN
       /\ g.status = 200
       /\ \A e \in g.entry :
            /\ e.name = Val(resp.body.name)
            /\ e.date = Val(resp.body.date).iso
            /\ e.hours = HoursValue(resp.body)
            /\ e.notes = (IF Has(resp.body.notes) THEN Val(resp.body.notes) ELSE <<>>)
            /\ e.id = resp.id /\ e.createdAt > 0 /\ e.updatedAt > 0

\* C6 amended: after a successful POST, GET with the returned id yields a
\* record whose name and notes are the submitted ones with surrounding
\* whitespace removed (notes empty when omitted), whose date is the submitted
\* instant and whose hours is the submitted value as a number, with id and
\* timestamps populated.
C6_CreateThenGetEqualsTrimmedInput ==
  (resp.op = "POST" /\ resp.status = 201)
  => LET g == GetById(store, resp.id) IN
       /\ g.status = 200
       /\ \A e \in g.entry :
            /\ e.name = TrimEnd(TrimStart(Val(resp.body.name)))
            /\ e.date = Val(resp.body.date).iso
            /\ e.hours = HoursValue(resp.body)
            /\ e.notes = (IF Has(resp.body.notes)
                          THEN TrimEnd(TrimStart(Val(resp.body.notes))) ELSE <<>>)
            /\ e.id = resp.id /\ e.createdAt > 0 /\ e.updatedAt > 0

C6_Witness ==
  /\ resp.op = "POST" /\ resp.status = 201
  /\ "str" \in DOMAIN Val(resp.body.hours)
  /\ Val(resp.body.name) # TrimEnd(TrimStart(Val(resp.body.name)))
  /\ resp.id = 2

\* The identifiers a create can still hand out are the ones from nextId on.
NeverReused == \A id \in deleted' : id < nextId' /\ id \notin DOMAIN store'

\* C7 as stated: once DELETE has succeeded for an identifier, every later GET,
\* PUT or DELETE on it is answered 404; identifiers are never reused and a PUT
\* never re-creates the entry.
C7_DeletedStaysGone_Always404 ==
  [][ /\ NeverReused
      /\ \A op \in {"GET", "PUT", "DELETE"} :
           (Answered(op) /\ resp'.id \in deleted) => resp'.status = 404
    ]_vars

\* C7 amended: once DELETE has succeeded for an identifier, every later GET or
\* DELETE on it is answered 404 and every later PUT on it is answered 404
\* unless its body is refused (400 by the route's checks, 500 by the schema's
\* validators), never 200; identifiers are never reused and a PUT never
\* re-creates the entry.
C7_DeletedStaysGone ==
  [][ /\ NeverReused
      /\ \A op \in {"GET", "DELETE"} :
           (Answered(op) /\ resp'.id \in deleted) => resp'.status = 404
      /\ (Answered("PUT") /\ resp'.id \in deleted)
         => /\ resp'.status \in {400, 404, 500}
            /\ resp'.status = 400 =>
                 \/ NameTooShort(resp'.body) \/ DateInFuture(resp'.body, resp'.at)
                 \/ HoursOutOfRange(resp'.body)
            /\ resp'.status = 500 =>
                 (Has(resp'.body.hours) /\ HoursValue(resp'.body) < 10)
            /\ store' = store
    ]_vars

C7_Witness ==
  /\ resp.op = "PUT" /\ resp.status = 404 /\ resp.id \in deleted
  /\ Has(resp.body.name)
  /\ nextId = 3 /\ DOMAIN store = {2}

\* C8: a GET, PUT or DELETE whose identifier is not well-formed is answered
\* 404, never 500, and leaves the store unchanged.
C8_MalformedIdIsNotFound ==
  [][ \A op \in {"GET", "PUT", "DELETE"} :
        (Answered(op) /\ resp'.id = MalformedId)
        => (resp'.status = 404 /\ store' = store)
    ]_vars

\* ------------------------------------------------------ statistics claims
RECURSIVE SumOver(_, _)
SumOver(st, ids) ==
  IF ids = {} THEN 0
  ELSE LET i == CHOOSE x \in ids : TRUE IN st[i].hours + SumOver(st, ids \ {i})

NamesOf(st) == { st[i].name : i \in DOMAIN st }
IdsOf(st, n) == { i \in DOMAIN st : st[i].name = n }
FirstSeen(st, n) == CHOOSE i \in IdsOf(st, n) : \A j \in IdsOf(st, n) : i <= j
Min(a, b) == IF a < b THEN a ELSE b

\* g ranks before h: more hours, or the same hours and seen first.
RanksBefore(st, g, h) ==
  \/ g.hours > h.hours
  \/ g.hours = h.hours /\ FirstSeen(st, g.name) < FirstSeen(st, h.name)

GroupOf(st, n) ==
  [name |-> n, hours |-> SumOver(st, IdsOf(st, n)), entries |-> Cardinality(IdsOf(st, n))]

\* C9: topLearners is the per-name groups sorted by total hours descending,
\* equal totals in order of first appearance, cut to the first 5; it has
\* min(5, distinct names) items and, with at most 5 distinct names, its entry
\* counts sum to totalEntries.
C9_TopLearnersRanked ==
  (resp.op = "STATS") =>
    \A r \in resp.stats :
      LET top == r.topLearners
          in == { top[i].name : i \in DOMAIN top }
      IN /\ Len(top) = Min(5, Cardinality(NamesOf(store)))
         /\ \A i \in DOMAIN top :
              top[i].name \in NamesOf(store) /\ top[i] = GroupOf(store, top[i].name)
         /\ \A i, j \in DOMAIN top : i < j => RanksBefore(store, top[i], top[j])
         /\ \A n \in NamesOf(store) \ in :
              \A i \in DOMAIN top : RanksBefore(store, top[i], GroupOf(store, n))
         /\ Cardinality(NamesOf(store)) <= 5 =>
              SumOver([i \in DOMAIN top |-> [hours |-> top[i].entries]], DOMAIN top)
                = r.totalEntries

\* C10: totalEntries is the number of entries, totalHours their sum of hours,
\* uniqueLearners the number of distinct names, avgHours totalHours divided by
\* totalEntries rounded to 1 decimal place; over zero entries all four are 0
\* and topLearners is empty; computing the statistics changes no stored entry.
C10_StatsTotals ==
  [][ Answered("STATS") =>
        /\ store' = store
        /\ resp'.status = 200
        /\ \A r \in resp'.stats :
             LET n == Cardinality(DOMAIN store)
                 total == SumOver(store, DOMAIN store)
             IN /\ r.totalEntries = n
                /\ 10 * r.totalHours = total
                /\ r.uniqueLearners = Cardinality(NamesOf(store))
                /\ 10 * r.avgHours * n - total <= 5 * n
                /\ total - 10 * r.avgHours * n <= 5 * n
                /\ n = 0 => ( /\ r.totalHours = 0 /\ r.uniqueLearners = 0
                              /\ r.avgHours = 0 /\ r.topLearners = <<>> )
        /\ resp'.stats # {}
    ]_vars

C10_Witness ==
  /\ resp.op = "STATS"
  /\ \E r \in resp.stats :
       /\ r.totalEntries = 3 /\ r.uniqueLearners = 2
       /\ r.totalHours = 4 /\ r.avgHours = 1

====
